---------------------------- MODULE Spec2Model ----------------------------
(***************************************************************************)
(* A model of the card validator and of the Card component of the uigen    *)
(* repository (src/Card.tsx).                                               *)
(*                                                                          *)
(* A JavaScript string is a sequence of UTF-16 code units, here a TLA+      *)
(* sequence of one-character strings; an absent argument is null or         *)
(* undefined.  validateCardProps is translated statement by statement; a    *)
(* method call on an absent receiver completes abruptly with a TypeError.   *)
(***************************************************************************)
EXTENDS Integers, Sequences, FiniteSets, TLC

VARIABLES
    pc,           \* position of the standalone caller: "ready" | "done"
    title,        \* first argument of the standalone call
    description,  \* second argument of the standalone call
    completion,   \* completion record of the call, once it was made
    props,        \* props of the Card instance's latest render
    validation,   \* `validation` of the latest render (line 103)
    output,       \* element the latest render returned
    effectPending,\* the latest render's effect has not run yet
    observed,     \* argument of the latest onValidationChange call
    rerender,     \* history: what the latest render changed
    calls,        \* calls a mock observer (vi.fn()) has recorded, in order
    sibling,      \* a second Card instance of the same document
    renders,      \* history: title and description of the committed renders
    examples,     \* CardExamples: its validationState and pending re-render
    session       \* createSession: NODE_ENV, position, token and cookie store

callVars == <<pc, title, description, completion>>

cardVars == <<props, validation, output, effectPending, observed, rerender, calls>>

otherVars == <<renders, examples, session>>

vars == <<pc, title, description, completion,
          props, validation, output, effectPending, observed, rerender, calls,
          sibling, renders, examples, session>>

---------------------------------------------------------------------------
(* Bounds of the explored inputs.                                          *)

\* Short strings: every string over Alphabet of at most this length.
MaxShort == 2

\* Long strings: lengths within this distance of a length limit.
Delta == 1

---------------------------------------------------------------------------
(* JavaScript values and the String built-ins the validator calls.         *)

Str(chars) == [type |-> "string", chars |-> chars]

Undefined == [type |-> "undefined", chars |-> <<>>]

Null == [type |-> "null", chars |-> <<>>]

EmptyString == Str(<<>>)

IsString(v) == v.type = "string"

\* WhiteSpace and LineTerminator code units String.prototype.trim strips.
IsWhiteSpace(c) == c \in {" ", "\t", "\n"}

\* v.length
length(v) == Len(v.chars)

\* v.trim(): the string without its leading and trailing white space.
trim(v) ==
    LET s == v.chars
        n == Len(s)
    IN  IF \A i \in 1..n : IsWhiteSpace(s[i])
        THEN EmptyString
        ELSE LET first == CHOOSE i \in 1..n :
                              /\ ~IsWhiteSpace(s[i])
                              /\ \A j \in 1..(i - 1) : IsWhiteSpace(s[j])
                 last  == CHOOSE i \in 1..n :
                              /\ ~IsWhiteSpace(s[i])
                              /\ \A j \in (i + 1)..n : IsWhiteSpace(s[j])
             IN  Str([i \in 1..(last - first + 1) |-> s[first + i - 1]])

LowerOf(c) ==
    CASE c = "A" -> "a"
      [] c = "B" -> "b"
      [] c = "V" -> "v"
      [] OTHER -> c

\* v.toLowerCase()
toLowerCase(v) == Str([i \in 1..Len(v.chars) |-> LowerOf(v.chars[i])])

\* !v for a string-or-absent value: null, undefined and "" are falsy.
Not(v) == ~IsString(v) \/ Len(v.chars) = 0

\* A property access on null or undefined raises a TypeError.
Raises(v) == ~IsString(v)

Return(value) == [type |-> "normal", value |-> value]

TypeError == [type |-> "throw", value |-> [name |-> "TypeError"]]

---------------------------------------------------------------------------
(* validateCardProps, src/Card.tsx lines 42-82.                            *)

TitleMaxLength == 100

DescriptionMaxLength == 500

MissingTitleMessage ==
    "Card title is required and cannot be empty. Please provide a meaningful title to describe your content."

TitleTooLongMessage(len) ==
    "Card title is too long (" \o ToString(len)
        \o "/100 characters). Please use a concise title that summarizes your content effectively."

MissingDescriptionMessage ==
    "Card description is required and cannot be empty. Please provide a clear description to give users context about your content."

DescriptionTooLongMessage(len) ==
    "Card description is too long (" \o ToString(len)
        \o "/500 characters). Please provide a concise description that highlights the key information."

DuplicateContentMessage ==
    "Card title and description should be different. The description should provide additional context beyond the title."

ValidMessage ==
    "Card content is valid and provides meaningful information to users."

CardValidation(isValid, message) == [isValid |-> isValid, message |-> message]

MissingTitle == CardValidation(FALSE, MissingTitleMessage)

TitleTooLong(len) == CardValidation(FALSE, TitleTooLongMessage(len))

MissingDescription == CardValidation(FALSE, MissingDescriptionMessage)

DescriptionTooLong(len) == CardValidation(FALSE, DescriptionTooLongMessage(len))

\* A wrong flag on the duplicate verdict.
DuplicateContent_flagged == CardValidation(TRUE, DuplicateContentMessage)

DuplicateContent == CardValidation(FALSE, DuplicateContentMessage)

Valid == CardValidation(TRUE, ValidMessage)

\* The presence test without the trim.
titleMissing_untrimmed(t) == Not(t)

\* line 43: !title || title.trim().length === 0  (|| short-circuits)
titleMissing(t) == Not(t) \/ length(trim(t)) = 0

\* The limit compared with >= instead of >.
titleTooLong_inclusive(t) == length(t) >= TitleMaxLength

\* The limit compared with the trimmed length.
titleTooLong_trimmed(t) == length(trim(t)) > TitleMaxLength

\* line 50: title.length > 100
titleTooLong(t) == length(t) > TitleMaxLength

\* line 57: !description || description.trim().length === 0
descriptionMissing(d) == Not(d) \/ length(trim(d)) = 0

\* The limit compared with >= instead of >.
descriptionTooLong_inclusive(d) == length(d) >= DescriptionMaxLength

\* line 64: description.length > 500
descriptionTooLong(d) == length(d) > DescriptionMaxLength

\* The comparison without the trim.
duplicateContent_untrimmed(t, d) == toLowerCase(t) = toLowerCase(d)

\* The comparison without the lower-casing.
duplicateContent_caseSensitive(t, d) == trim(t) = trim(d)

\* line 71: title.trim().toLowerCase() === description.trim().toLowerCase()
duplicateContent(t, d) == toLowerCase(trim(t)) = toLowerCase(trim(d))

\* The description's presence tested before the title's length.
validateCardProps_reordered(t, d) ==
    IF ~Not(t) /\ Raises(t) THEN TypeError
    ELSE IF titleMissing(t) THEN Return(MissingTitle)
    ELSE IF ~Not(d) /\ Raises(d) THEN TypeError
    ELSE IF descriptionMissing(d) THEN Return(MissingDescription)
    ELSE IF titleTooLong(t) THEN Return(TitleTooLong(length(t)))
    ELSE IF descriptionTooLong(d) THEN Return(DescriptionTooLong(length(d)))
    ELSE IF duplicateContent(t, d) THEN Return(DuplicateContent)
    ELSE Return(Valid)

\* The description's presence test without its `!description ||` guard.
validateCardProps_unguarded(t, d) ==
    IF ~Not(t) /\ Raises(t) THEN TypeError
    ELSE IF titleMissing(t) THEN Return(MissingTitle)
    ELSE IF titleTooLong(t) THEN Return(TitleTooLong(length(t)))
    ELSE IF Raises(d) THEN TypeError
    ELSE IF length(trim(d)) = 0 THEN Return(MissingDescription)
    ELSE IF descriptionTooLong(d) THEN Return(DescriptionTooLong(length(d)))
    ELSE IF duplicateContent(t, d) THEN Return(DuplicateContent)
    ELSE Return(Valid)

\* The statements of lines 43-81 in order.  title.trim() and
\* description.trim() are reached only when `!x` was false; they raise on a
\* receiver that is not a string.
validateCardProps(t, d) ==
    IF ~Not(t) /\ Raises(t) THEN TypeError
    ELSE IF titleMissing(t) THEN Return(MissingTitle)
    ELSE IF titleTooLong(t) THEN Return(TitleTooLong(length(t)))
    ELSE IF ~Not(d) /\ Raises(d) THEN TypeError
    ELSE IF descriptionMissing(d) THEN Return(MissingDescription)
    ELSE IF descriptionTooLong(d) THEN Return(DescriptionTooLong(length(d)))
    ELSE IF duplicateContent(t, d) THEN Return(DuplicateContent)
    ELSE Return(Valid)

---------------------------------------------------------------------------
(* The standalone caller: one call of validateCardProps on drawn inputs.   *)

Alphabet == {" ", "a", "A"}

Rep(c, n) == [i \in 1..n |-> c]

ShortStrings == UNION {[1..n -> Alphabet] : n \in 0..MaxShort}

\* Strings whose length is within Delta of a limit: plain, with leading or
\* trailing white space, of white space alone, and with an upper-case letter.
NearLimit(limit) ==
    UNION {{Rep("a", n),
            <<" ">> \o Rep("a", n - 1),
            Rep("a", n - 1) \o <<"\t">>,
            Rep(" ", n),
            <<"A">> \o Rep("a", n - 1)} : n \in (limit - Delta)..(limit + Delta)}

Absent == {Undefined, Null}

Titles == Absent \cup {Str(s) : s \in ShortStrings \cup NearLimit(TitleMaxLength)}

Descriptions ==
    Absent \cup {Str(s) : s \in ShortStrings \cup NearLimit(TitleMaxLength)
                                 \cup NearLimit(DescriptionMaxLength)}

NotCalled == [type |-> "none", value |-> [name |-> "none"]]

Unmounted == [mounted |-> FALSE]

\* useState<CardValidation | null>(null): the state holds null or a verdict
\* object.  Objects are compared by identity; `id` tells the object of one
\* render from the object of the render before it.
NullState == [isNull |-> TRUE, id |-> 0, value |-> NotCalled]

\* CardExamples before its first render.
ExamplesUnmounted ==
    [mounted |-> FALSE, validationState |-> NullState,
     renderPending |-> FALSE, objectId |-> 0]

\* The server module before any call of createSession.
NoSession == [pc |-> "none"]

\* An instance before its first render.
NotRendered ==
    [props |-> Unmounted, validation |-> NotCalled, output |-> [role |-> "none"],
     effectPending |-> FALSE, observed |-> NotCalled]

CardIdle ==
    /\ props = NotRendered.props
    /\ validation = NotRendered.validation
    /\ output = NotRendered.output
    /\ effectPending = NotRendered.effectPending
    /\ observed = NotRendered.observed
    /\ rerender = "none"
    /\ calls = <<>>
    /\ sibling = NotRendered
    /\ renders = <<>>
    /\ examples = ExamplesUnmounted
    /\ session = NoSession

Init ==
    /\ pc = "ready"
    /\ title \in Titles
    /\ description \in Descriptions
    /\ completion = NotCalled
    /\ CardIdle

Call ==
    /\ pc = "ready"
    /\ completion' = validateCardProps(title, description)
    /\ pc' = "done"
    /\ UNCHANGED <<title, description>>
    /\ UNCHANGED <<cardVars, sibling, otherVars>>

Next == Call

Spec == Init /\ [][Next]_vars

---------------------------------------------------------------------------
(* The inline-styled copy of the module, src/unnamed/part_001: its         *)
(* validator (lines 42-82) and the test of its Card that chooses the view  *)
(* (line 251).                                                             *)

\* The copy with the title limit compared with >=.
validateCardPropsInline_inclusive(t, d) ==
    IF ~Not(t) /\ Raises(t) THEN TypeError
    ELSE IF Not(t) \/ length(trim(t)) = 0 THEN
        Return([isValid |-> FALSE,
                message |-> "Card title is required and cannot be empty. Please provide a meaningful title to describe your content."])
    ELSE IF length(t) >= 100 THEN
        Return([isValid |-> FALSE,
                message |-> "Card title is too long (" \o ToString(length(t))
                            \o "/100 characters). Please use a concise title that summarizes your content effectively."])
    ELSE IF ~Not(d) /\ Raises(d) THEN TypeError
    ELSE IF Not(d) \/ length(trim(d)) = 0 THEN
        Return([isValid |-> FALSE,
                message |-> "Card description is required and cannot be empty. Please provide a clear description to give users context about your content."])
    ELSE IF length(d) > 500 THEN
        Return([isValid |-> FALSE,
                message |-> "Card description is too long (" \o ToString(length(d))
                            \o "/500 characters). Please provide a concise description that highlights the key information."])
    ELSE IF toLowerCase(trim(t)) = toLowerCase(trim(d)) THEN
        Return([isValid |-> FALSE,
                message |-> "Card title and description should be different. The description should provide additional context beyond the title."])
    ELSE Return([isValid |-> TRUE,
                 message |-> "Card content is valid and provides meaningful information to users."])

\* part_001 lines 42-82, statement by statement.
validateCardPropsInline(t, d) ==
    IF ~Not(t) /\ Raises(t) THEN TypeError
    ELSE IF Not(t) \/ length(trim(t)) = 0 THEN
        Return([isValid |-> FALSE,
                message |-> "Card title is required and cannot be empty. Please provide a meaningful title to describe your content."])
    ELSE IF length(t) > 100 THEN
        Return([isValid |-> FALSE,
                message |-> "Card title is too long (" \o ToString(length(t))
                            \o "/100 characters). Please use a concise title that summarizes your content effectively."])
    ELSE IF ~Not(d) /\ Raises(d) THEN TypeError
    ELSE IF Not(d) \/ length(trim(d)) = 0 THEN
        Return([isValid |-> FALSE,
                message |-> "Card description is required and cannot be empty. Please provide a clear description to give users context about your content."])
    ELSE IF length(d) > 500 THEN
        Return([isValid |-> FALSE,
                message |-> "Card description is too long (" \o ToString(length(d))
                            \o "/500 characters). Please provide a concise description that highlights the key information."])
    ELSE IF toLowerCase(trim(t)) = toLowerCase(trim(d)) THEN
        Return([isValid |-> FALSE,
                message |-> "Card title and description should be different. The description should provide additional context beyond the title."])
    ELSE Return([isValid |-> TRUE,
                 message |-> "Card content is valid and provides meaningful information to users."])

\* part_001 lines 235 and 251: showValidation = false;
\* !validation.isValid && showValidation
ShowsErrorInline(showValidation, v) == ~v.isValid /\ showValidation = "true"

---------------------------------------------------------------------------
(* The Card component, src/Card.tsx lines 5-35 and 91-155.  A prop the     *)
(* caller leaves out has the value "omitted".                              *)

Variants == {"default", "featured", "interactive", "compact", "status"}

Sizes == {"sm", "default", "lg"}

Statuses == {"none", "success", "warning", "error", "info"}

VariantClass(variant) ==
    CASE variant = "default" -> "border-border bg-card hover:shadow-md"
      [] variant = "featured" ->
            "border-primary/20 bg-gradient-to-br from-primary/5 to-primary/10 shadow-md hover:shadow-lg"
      [] variant = "interactive" ->
            "border-border bg-card hover:border-primary/40 hover:shadow-md cursor-pointer active:scale-[0.98]"
      [] variant = "compact" -> "border-border bg-card p-3 shadow-xs hover:shadow-sm"
      [] variant = "status" -> "border-l-4 bg-card shadow-sm"

SizeClass(size) ==
    CASE size = "sm" -> "p-4 space-y-2"
      [] size = "default" -> "p-6 space-y-4"
      [] size = "lg" -> "p-8 space-y-6"

StatusClass(status) ==
    CASE status = "none" -> ""
      [] status = "success" -> "border-l-green-500 bg-green-50/50 dark:bg-green-950/10"
      [] status = "warning" -> "border-l-amber-500 bg-amber-50/50 dark:bg-amber-950/10"
      [] status = "error" -> "border-l-red-500 bg-red-50/50 dark:bg-red-950/10"
      [] status = "info" -> "border-l-blue-500 bg-blue-50/50 dark:bg-blue-950/10"

\* defaultVariants, lines 29-33
OrDefault(given, default) == IF given = "omitted" THEN default ELSE given

\* cva(...)({variant, size, status}): every group contributes its class,
\* an omitted key the class of its default.
cardVariants(variant, size, status) ==
    [variant |-> VariantClass(OrDefault(variant, "default")),
     size    |-> SizeClass(OrDefault(size, "default")),
     status  |-> StatusClass(OrDefault(status, "none"))]

\* The default of showValidation taken as true.
showValidationOf_defaultTrue(p) == p.showValidation # "false"

\* line 99: showValidation = false
showValidationOf(p) == p.showValidation = "true"

\* The verdict computed only when validation is to be shown.
CardValidate_whenShown(p) ==
    IF showValidationOf(p) THEN validateCardProps(p.title, p.description)
    ELSE Return(Valid)

\* line 103: const validation = validateCardProps(title, description)
CardValidate(p) == validateCardProps(p.title, p.description)

\* The error view chosen for every invalid verdict.
ShowsError_wheneverInvalid(p, v) == ~v.isValid

\* line 109: !validation.isValid && showValidation
ShowsError(p, v) == ~v.isValid /\ showValidationOf(p)

\* The error view styled with the requested variant and status.
AlertElement_requestedStyle(p, v) ==
    [role      |-> "alert",
     className |-> cardVariants(p.variant, p.size, p.status),
     heading   |-> "Invalid Card Configuration",
     message   |-> v.message]

\* The error view with one fixed diagnostic.
AlertElement_fixedMessage(p, v) ==
    [role      |-> "alert",
     className |-> cardVariants("status", p.size, "error"),
     heading   |-> "Invalid Card Configuration",
     message   |-> MissingTitleMessage]

\* The error view under the role of the normal one.
AlertElement_articleRole(p, v) ==
    [role      |-> "article",
     className |-> cardVariants("status", p.size, "error"),
     heading   |-> "Invalid Card Configuration",
     message   |-> v.message]

\* lines 110-135: the error view.
AlertElement(p, v) ==
    [role      |-> "alert",
     className |-> cardVariants("status", p.size, "error"),
     heading   |-> "Invalid Card Configuration",
     message   |-> v.message]

\* The status class dropped unless the variant is "status".
ArticleElement_statusOnlyForStatusVariant(p) ==
    [role        |-> "article",
     className   |-> cardVariants(p.variant, p.size,
                                  IF p.variant = "status" THEN p.status ELSE "none"),
     labelledby  |-> "card-title",
     describedby |-> "card-description",
     titleId       |-> "card-title",
     title         |-> p.title,
     descriptionId |-> "card-description",
     description   |-> p.description]

\* lines 138-154: the normal view.
ArticleElement(p) ==
    [role        |-> "article",
     className   |-> cardVariants(p.variant, p.size, p.status),
     labelledby  |-> "card-title",
     describedby |-> "card-description",
     titleId       |-> "card-title",
     title         |-> p.title,
     descriptionId |-> "card-description",
     description   |-> p.description]

\* lines 109-154: the element the render returns.
CardElement(p, v) ==
    IF ShowsError(p, v) THEN AlertElement(p, v) ELSE ArticleElement(p)

\* The verdict compared by value with that of the render before.
DepsChanged_byValue(prev, p, c) ==
    \/ ~prev.props.mounted
    \/ c # prev.validation
    \/ p.onValidationChange # prev.props.onValidationChange

\* The effect scheduled only when validation is shown.
DepsChanged_whenShown(prev, p, c) == showValidationOf(p)

\* The effect skipped on the first render.
DepsChanged_afterMount(prev, p, c) == prev.props.mounted

\* The verdict compared by its validity instead of by identity.
DepsChanged_byValidity(prev, p, c) ==
    \/ ~prev.props.mounted
    \/ c.value.isValid # prev.validation.value.isValid
    \/ p.onValidationChange # prev.props.onValidationChange

\* line 107: [validation, onValidationChange].  Every effect runs after the
\* first render; later the list is compared with Object.is, and `validation`
\* is an object literal made by this very call, identical to no earlier one.
DepsChanged(prev, p, c) ==
    \/ ~prev.props.mounted
    \/ TRUE
    \/ p.onValidationChange # prev.props.onValidationChange

\* The status of the first render kept by later renders.
CardRender_keepsStatus(prev, p) ==
    LET q == IF prev.props.mounted THEN [p EXCEPT !.status = prev.props.status] ELSE p
        c == CardValidate(q)
    IN  [props         |-> p,
         validation    |-> c,
         output        |-> IF c.type = "normal" THEN CardElement(q, c.value)
                           ELSE [role |-> "error"],
         effectPending |-> c.type = "normal",
         observed      |-> prev.observed]

\* One invocation of the component function with props p by an instance
\* whose previous render left `prev`: the verdict, the returned element, and
\* whether the effect of lines 105-107 is scheduled.
CardRender(prev, p) ==
    LET c == CardValidate(p)
    IN  [props         |-> p,
         validation    |-> c,
         output        |-> IF c.type = "normal" THEN CardElement(p, c.value)
                           ELSE [role |-> "error"],
         effectPending |-> c.type = "normal" /\ DepsChanged(prev, p, c),
         observed      |-> prev.observed]

Instance ==
    [props |-> props, validation |-> validation, output |-> output,
     effectPending |-> effectPending, observed |-> observed]

\* The observer called from the body of the component function.
Render_emitting(p) ==
    LET r == CardRender(Instance, p)
        called == p.onValidationChange # "omitted" /\ r.validation.type = "normal"
    IN  /\ props' = r.props
        /\ validation' = r.validation
        /\ output' = r.output
        /\ effectPending' = FALSE
        /\ observed' = IF called THEN r.validation ELSE observed
        /\ calls' = IF called /\ p.onValidationChange = "mock"
                    THEN Append(calls, r.validation) ELSE calls

\* A render of the instance held in the variables.  Rendering calls no
\* observer.
Render(p) ==
    LET r == CardRender(Instance, p)
    IN  /\ props' = r.props
        /\ validation' = r.validation
        /\ output' = r.output
        /\ effectPending' = r.effectPending
        /\ UNCHANGED <<observed, calls>>

CardTitles == {Undefined, Str(<<"a">>)}

CardDescriptions == {Str(<<"A">>), Str(<<"b">>)}

PropValues(name) ==
    CASE name = "title" -> CardTitles
      [] name = "description" -> CardDescriptions
      [] name = "variant" -> Variants
      [] name = "size" -> Sizes
      [] name = "status" -> Statuses
      [] name = "showValidation" -> {"omitted", "true", "false"}
      [] name = "onValidationChange" -> {"omitted", "observer"}

PropNames ==
    {"title", "description", "variant", "size", "status",
     "showValidation", "onValidationChange"}

CardProps ==
    [mounted : {TRUE},
     title : CardTitles, description : CardDescriptions,
     variant : PropValues("variant"), size : PropValues("size"),
     status : PropValues("status"),
     showValidation : PropValues("showValidation"),
     onValidationChange : PropValues("onValidationChange")]

\* The first render of the instance.
Mount(p) ==
    /\ ~props.mounted
    /\ Render(p)
    /\ rerender' = "mount"
    /\ UNCHANGED <<callVars, sibling, otherVars>>

\* The parent renders again and passes `value` as prop `name`.  React runs
\* the pending effects of a render before it renders again.
Rerender(name, value) ==
    /\ props.mounted
    /\ ~effectPending
    /\ Render([props EXCEPT ![name] = value])
    /\ rerender' = IF props[name] = value THEN "same"
                   ELSE IF name \in {"title", "description"} THEN "content"
                   ELSE "presentation"
    /\ UNCHANGED <<callVars, sibling, otherVars>>

\* The observer called without the `?.`.
OptionalCall_unguarded(f) == IF f = "omitted" THEN "TypeError" ELSE "called"

\* line 106: onValidationChange?.(...) calls nothing when there is no observer.
OptionalCall(f) == IF f = "omitted" THEN "skipped" ELSE "called"

\* The effect of lines 105-107 run for an instance: what its observer was
\* last called with, and the element on screen (an effect that raises takes
\* the tree down).
CardEffect(inst) ==
    LET outcome == OptionalCall(inst.props.onValidationChange)
    IN  [inst EXCEPT
            !.effectPending = FALSE,
            !.observed = IF outcome = "called" THEN inst.validation ELSE @,
            !.output = IF outcome = "TypeError" THEN [role |-> "error"] ELSE @]

\* lines 105-107: onValidationChange?.(validation), after the commit.  An
\* observer is "observer" (keeps its latest argument, as a state setter does)
\* or "mock" (records every call, as vi.fn() does).
Effect ==
    LET r == CardEffect(Instance)
    IN  /\ effectPending
        /\ effectPending' = r.effectPending
        /\ observed' = r.observed
        /\ output' = r.output
        /\ calls' = IF props.onValidationChange = "mock"
                    THEN Append(calls, validation) ELSE calls
        /\ UNCHANGED <<props, validation, rerender>>

\* The effect of the latest render of the instance runs.
RunEffect ==
    /\ Effect
    /\ UNCHANGED <<callVars, sibling, otherVars>>

CardInit ==
    /\ pc = "idle"
    /\ title = EmptyString
    /\ description = EmptyString
    /\ completion = NotCalled
    /\ CardIdle

CardNext ==
    \/ \E p \in CardProps : Mount(p)
    \/ \E name \in PropNames : \E value \in PropValues(name) : Rerender(name, value)
    \/ RunEffect

CardSpec == CardInit /\ [][CardNext]_vars

\* First renders over every combination of given and omitted props, with
\* content of each of the six verdicts.
MountTitles ==
    {Undefined, Str(<<"a">>), Str(Rep("a", TitleMaxLength + 1))}

MountDescriptions ==
    {EmptyString, Str(<<"A">>), Str(<<"b">>), Str(Rep("b", DescriptionMaxLength + 1))}

MountProps ==
    [mounted : {TRUE},
     title : MountTitles, description : MountDescriptions,
     variant : Variants \cup {"omitted"}, size : Sizes \cup {"omitted"},
     status : Statuses \cup {"omitted"},
     showValidation : PropValues("showValidation"),
     onValidationChange : PropValues("onValidationChange")]

MountNext ==
    \/ \E p \in MountProps : Mount(p)
    \/ RunEffect

MountSpec == CardInit /\ [][MountNext]_vars

\* Renders and re-renders of one instance whose observer, when given, is a
\* mock; part_000 lines 151-168 mount "Valid title" / "Valid description".
MaxCalls == 2

EffectTitles ==
    {Undefined, Str(<<"a">>),
     Str(<<"V", "a", "l", "i", "d", " ", "t", "i", "t", "l", "e">>)}

EffectDescriptions ==
    {Str(<<"A">>),
     Str(<<"V", "a", "l", "i", "d", " ", "d", "e", "s", "c", "r", "i", "p", "t", "i", "o", "n">>)}

EffectValues(name) ==
    CASE name = "title" -> EffectTitles
      [] name = "description" -> EffectDescriptions
      [] name = "showValidation" -> {"omitted", "true", "false"}
      [] name = "onValidationChange" -> {"omitted", "mock"}

EffectPropNames == {"title", "description", "showValidation", "onValidationChange"}

EffectProps ==
    [mounted : {TRUE},
     title : EffectTitles, description : EffectDescriptions,
     variant : {"default"}, size : {"default"}, status : {"none"},
     showValidation : EffectValues("showValidation"),
     onValidationChange : EffectValues("onValidationChange")]

EffectNext ==
    \/ \E p \in EffectProps : Mount(p)
    \/ \E name \in EffectPropNames : \E value \in EffectValues(name) :
          Len(calls) < MaxCalls /\ Rerender(name, value)
    \/ RunEffect

\* React runs the effects of a committed render.
EffectSpec == CardInit /\ [][EffectNext]_vars /\ WF_vars(RunEffect)

\* Two Card instances of one document (CardExamples.tsx lines 143-166 renders
\* four side by side), each rendered, re-rendered and notified on its own.
SiblingValues(name) ==
    CASE name = "title" -> CardTitles
      [] name = "description" -> CardDescriptions
      [] name = "showValidation" -> {"true", "false"}

SiblingPropNames == {"title", "description", "showValidation"}

SiblingProps ==
    [mounted : {TRUE},
     title : CardTitles, description : CardDescriptions,
     variant : {"default"}, size : {"default"}, status : {"none"},
     showValidation : SiblingValues("showValidation"),
     onValidationChange : {"observer"}]

\* The first render of the second instance.
SiblingMount(p) ==
    /\ ~sibling.props.mounted
    /\ sibling' = CardRender(sibling, p)
    /\ UNCHANGED <<callVars, cardVars, otherVars>>

\* A re-render of the second instance.
SiblingRerender(name, value) ==
    /\ sibling.props.mounted
    /\ ~sibling.effectPending
    /\ sibling' = CardRender(sibling, [sibling.props EXCEPT ![name] = value])
    /\ UNCHANGED <<callVars, cardVars, otherVars>>

\* An effect that leaves the verdict in state both instances read.
SiblingRunEffect_shared ==
    /\ sibling.effectPending
    /\ sibling' = CardEffect(sibling)
    /\ observed' = sibling.validation
    /\ UNCHANGED <<props, validation, output, effectPending, rerender, calls>>
    /\ UNCHANGED <<callVars, otherVars>>

\* lines 105-107 in the second instance: its observer gets its verdict.
SiblingRunEffect ==
    /\ sibling.effectPending
    /\ sibling' = CardEffect(sibling)
    /\ UNCHANGED <<callVars, cardVars, otherVars>>

SiblingsNext ==
    \/ \E p \in SiblingProps : Mount(p)
    \/ \E name \in SiblingPropNames : \E value \in SiblingValues(name) :
          Rerender(name, value)
    \/ RunEffect
    \/ \E p \in SiblingProps : SiblingMount(p)
    \/ \E name \in SiblingPropNames : \E value \in SiblingValues(name) :
          SiblingRerender(name, value)
    \/ SiblingRunEffect

SiblingsSpec == CardInit /\ [][SiblingsNext]_vars

\* The cards of the document in document order (App.jsx lines 36-53 and
\* CardExamples.tsx render them one after the other).
Document == <<output, sibling.output>>

\* The card holding the element an id reference resolves to: the first
\* element of the document with that id, 0 when there is none.
ResolveId(document, idField, id) ==
    LET holders == {i \in 1..Len(document) :
                       idField \in DOMAIN document[i] /\ document[i][idField] = id}
    IN  IF holders = {} THEN 0
        ELSE CHOOSE i \in holders : \A j \in holders : i <= j

---------------------------------------------------------------------------
(* One instance with a mock observer registered from its first render on,  *)
(* and the history of its renders.                                         *)

MaxRenders == 3

NotifyValues(name) ==
    CASE name = "title" -> EffectTitles
      [] name = "description" -> EffectDescriptions
      [] name = "showValidation" -> {"true", "false"}

NotifyPropNames == {"title", "description", "showValidation"}

NotifyProps ==
    [mounted : {TRUE},
     title : EffectTitles, description : EffectDescriptions,
     variant : {"default"}, size : {"default"}, status : {"none"},
     showValidation : NotifyValues("showValidation"),
     onValidationChange : {"mock"}]

NotifyFrame == UNCHANGED <<callVars, sibling, examples, session>>

NotifyMount(p) ==
    /\ ~props.mounted
    /\ Render(p)
    /\ rerender' = "mount"
    /\ renders' = Append(renders, [title |-> p.title, description |-> p.description])
    /\ NotifyFrame

NotifyRerender(name, value) ==
    LET p == [props EXCEPT ![name] = value]
    IN  /\ props.mounted
        /\ ~effectPending
        /\ Len(renders) < MaxRenders
        /\ Render(p)
        /\ rerender' = IF props[name] = value THEN "same"
                       ELSE IF name \in {"title", "description"} THEN "content"
                       ELSE "presentation"
        /\ renders' = Append(renders, [title |-> p.title, description |-> p.description])
        /\ NotifyFrame

NotifyEffect ==
    /\ Effect
    /\ UNCHANGED renders
    /\ NotifyFrame

NotifyNext ==
    \/ \E p \in NotifyProps : NotifyMount(p)
    \/ \E name \in NotifyPropNames : \E value \in NotifyValues(name) :
          NotifyRerender(name, value)
    \/ NotifyEffect

NotifySpec == CardInit /\ [][NotifyNext]_vars /\ WF_vars(NotifyEffect)

---------------------------------------------------------------------------
(* CardExamples.tsx lines 5-6 and 143-148: a Card whose observer is the    *)
(* setter of the parent's state.                                           *)

\* Object.is on a state value and a verdict object.
ObjectIs(a, b) == a.isNull = b.isNull /\ (a.isNull \/ a.id = b.id)

\* The identity of the object literal a render creates: that of no object
\* made before, in particular not of the one the state holds.
FreshId(state) == IF state.isNull THEN 0 ELSE 1 - state.id

ExamplesProps ==
    [mounted : {TRUE},
     title : {EmptyString, Str(<<"a">>)}, description : CardDescriptions,
     variant : Variants, size : Sizes, status : {"none"},
     showValidation : {"true"},
     onValidationChange : {"observer"}]

ExamplesFrame == UNCHANGED <<callVars, sibling, renders, session>>

\* CardExamples renders for the first time, and with it the Card.
ExamplesMount(p) ==
    /\ ~examples.mounted
    /\ Render(p)
    /\ rerender' = "mount"
    /\ examples' = [mounted |-> TRUE, validationState |-> NullState,
                    renderPending |-> FALSE,
                    objectId |-> FreshId(NullState)]
    /\ ExamplesFrame

\* The effect of the Card calls setValidationState(validation): React keeps
\* the state and renders nothing when the value is the one it holds, and
\* stores it and schedules a render of CardExamples otherwise.
ExamplesEffect ==
    LET emitted == [isNull |-> FALSE, id |-> examples.objectId, value |-> validation]
    IN  /\ examples.mounted
        /\ Effect
        /\ examples' = IF ObjectIs(examples.validationState, emitted)
                       THEN examples
                       ELSE [examples EXCEPT !.validationState = emitted,
                                             !.renderPending = TRUE]
        /\ ExamplesFrame

\* CardExamples renders again and passes the Card the props it passed before.
ExamplesRerender ==
    /\ examples.mounted
    /\ examples.renderPending
    /\ ~effectPending
    /\ Render(props)
    /\ rerender' = "same"
    /\ examples' = [examples EXCEPT !.renderPending = FALSE,
                                    !.objectId = FreshId(examples.validationState)]
    /\ ExamplesFrame

ExamplesNext ==
    \/ \E p \in ExamplesProps : ExamplesMount(p)
    \/ ExamplesEffect
    \/ ExamplesRerender

\* React runs scheduled effects and scheduled renders.
ExamplesSpec ==
    CardInit /\ [][ExamplesNext]_vars
    /\ WF_vars(ExamplesEffect) /\ WF_vars(ExamplesRerender)

---------------------------------------------------------------------------
(* createSession of src/lib/auth, as src/src/lib/__tests__/auth.test.ts    *)
(* pins it down with mocks of jose and next/headers: the module itself is  *)
(* not among the files.  `session.log` is the order of the mock            *)
(* invocations of the current call, `session.cookieSets` the calls of      *)
(* cookieStore.set so far.                                                  *)

MaxSessions == 2

\* process.env.NODE_ENV: unset, or a string (test lines 119-145, 429-447).
NodeEnvUnset == [set |-> FALSE, value |-> ""]

NodeEnv(value) == [set |-> TRUE, value |-> value]

NodeEnvValues ==
    {NodeEnvUnset} \cup
    {NodeEnv(v) : v \in {"production", "development", "test", "staging",
                         "prod", "PRODUCTION", "Production", ""}}

\* Tokens the mocked sign() resolves with.
Tokens == {"mock-jwt-token", "other-jwt-token"}

\* secure is true in production only, in every other environment false.
Secure_unlessDevelopment(env) == ~(env.set /\ env.value = "development")

\* secure: process.env.NODE_ENV === 'production'
Secure(env) == env.set /\ env.value = "production"

SessionIdle(env) ==
    [pc |-> "idle", env |-> env, log |-> <<>>, token |-> "none",
     cookieSets |-> <<>>, result |-> "none", count |-> 0]

SessionFrame == UNCHANGED <<callVars, cardVars, sibling, renders, examples>>

\* The test sets process.env.NODE_ENV between calls.
SetNodeEnv(env) ==
    /\ session.pc = "idle"
    /\ session' = [session EXCEPT !.env = env]
    /\ SessionFrame

\* new SignJWT(payload).setProtectedHeader().setExpirationTime().setIssuedAt()
\* .sign(secret), up to the await of the promise sign() returns.
CreateSession ==
    /\ session.pc = "idle"
    /\ session.count < MaxSessions
    /\ session' = [session EXCEPT
          !.pc = "await sign",
          !.log = <<"SignJWT", "setProtectedHeader", "setExpirationTime",
                    "setIssuedAt", "sign">>,
          !.token = "none",
          !.result = "pending",
          !.count = @ + 1]
    /\ SessionFrame

SignResolves(token) ==
    /\ session.pc = "await sign"
    /\ session' = [session EXCEPT
          !.pc = "await cookies",
          !.token = token,
          !.log = Append(@, "cookies")]
    /\ SessionFrame

\* A failed signature with the cookie set all the same.
SignRejects_cookieSet ==
    /\ session.pc = "await sign"
    /\ session' = [session EXCEPT
          !.pc = "idle",
          !.result = "rejected: JWT signing failed",
          !.log = Append(Append(@, "cookies"), "set"),
          !.cookieSets = Append(@, [name |-> "auth-token", value |-> "none",
                                    httpOnly |-> TRUE, secure |-> Secure(session.env),
                                    sameSite |-> "lax", path |-> "/"])]
    /\ SessionFrame

\* sign() rejects: the await throws and createSession rejects with the error.
SignRejects ==
    /\ session.pc = "await sign"
    /\ session' = [session EXCEPT
          !.pc = "idle",
          !.result = "rejected: JWT signing failed"]
    /\ SessionFrame

CookiesResolves ==
    /\ session.pc = "await cookies"
    /\ session' = [session EXCEPT !.pc = "set cookie"]
    /\ SessionFrame

CookiesRejects ==
    /\ session.pc = "await cookies"
    /\ session' = [session EXCEPT
          !.pc = "idle",
          !.result = "rejected: Cookies access failed"]
    /\ SessionFrame

\* cookieStore.set('auth-token', token, {httpOnly, secure, sameSite, expires, path})
SetCookie ==
    /\ session.pc = "set cookie"
    /\ session' = [session EXCEPT
          !.pc = "idle",
          !.result = "resolved",
          !.log = Append(@, "set"),
          !.cookieSets = Append(@, [name |-> "auth-token", value |-> session.token,
                                    httpOnly |-> TRUE, secure |-> Secure(session.env),
                                    sameSite |-> "lax", path |-> "/"])]
    /\ SessionFrame

\* cookieStore.set throws.
SetCookieThrows ==
    /\ session.pc = "set cookie"
    /\ session' = [session EXCEPT
          !.pc = "idle",
          !.result = "rejected: Cookie setting failed",
          !.log = Append(@, "set")]
    /\ SessionFrame

SessionInit ==
    /\ pc = "idle"
    /\ title = EmptyString
    /\ description = EmptyString
    /\ completion = NotCalled
    /\ props = NotRendered.props
    /\ validation = NotRendered.validation
    /\ output = NotRendered.output
    /\ effectPending = NotRendered.effectPending
    /\ observed = NotRendered.observed
    /\ rerender = "none"
    /\ calls = <<>>
    /\ sibling = NotRendered
    /\ renders = <<>>
    /\ examples = ExamplesUnmounted
    /\ session \in {SessionIdle(env) : env \in NodeEnvValues}

SessionNext ==
    \/ \E env \in NodeEnvValues : SetNodeEnv(env)
    \/ CreateSession
    \/ \E token \in Tokens : SignResolves(token)
    \/ SignRejects
    \/ CookiesResolves
    \/ CookiesRejects
    \/ SetCookie
    \/ SetCookieThrows

SessionSpec == SessionInit /\ [][SessionNext]_vars

---------------------------------------------------------------------------
(* The validator's rules as the specification states them (section 4.1),   *)
(* each taken on its own, and the verdict kinds of section 7.              *)

IsAbsent(v) == v.type \in {"undefined", "null"}

\* Absent, or nothing but white space.
IsBlank(v) == IsAbsent(v) \/ \A i \in 1..Len(v.chars) : IsWhiteSpace(v.chars[i])

\* Trimmed and lower-cased.
Normalised(v) == toLowerCase(trim(v))

RuleOrder ==
    <<"MissingTitle", "TitleTooLong", "MissingDescription",
      "DescriptionTooLong", "DuplicateContent">>

RuleFails(rule, t, d) ==
    CASE rule = "MissingTitle" -> IsBlank(t)
      [] rule = "TitleTooLong" -> IsString(t) /\ Len(t.chars) > 100
      [] rule = "MissingDescription" -> IsBlank(d)
      [] rule = "DescriptionTooLong" -> IsString(d) /\ Len(d.chars) > 500
      [] rule = "DuplicateContent" ->
            IsString(t) /\ IsString(d) /\ Normalised(t) = Normalised(d)

FailingRules(t, d) == {i \in 1..Len(RuleOrder) : RuleFails(RuleOrder[i], t, d)}

FirstFailing(t, d) ==
    LET failing == FailingRules(t, d)
    IN  IF failing = {} THEN "Valid"
        ELSE RuleOrder[CHOOSE i \in failing : \A j \in failing : i <= j]

VerdictOfKind(kind, t, d) ==
    CASE kind = "MissingTitle" ->
            [isValid |-> FALSE,
             message |-> "Card title is required and cannot be empty. Please provide a meaningful title to describe your content."]
      [] kind = "TitleTooLong" ->
            [isValid |-> FALSE,
             message |-> "Card title is too long (" \o ToString(Len(t.chars))
                         \o "/100 characters). Please use a concise title that summarizes your content effectively."]
      [] kind = "MissingDescription" ->
            [isValid |-> FALSE,
             message |-> "Card description is required and cannot be empty. Please provide a clear description to give users context about your content."]
      [] kind = "DescriptionTooLong" ->
            [isValid |-> FALSE,
             message |-> "Card description is too long (" \o ToString(Len(d.chars))
                         \o "/500 characters). Please provide a concise description that highlights the key information."]
      [] kind = "DuplicateContent" ->
            [isValid |-> FALSE,
             message |-> "Card title and description should be different. The description should provide additional context beyond the title."]
      [] kind = "Valid" ->
            [isValid |-> TRUE,
             message |-> "Card content is valid and provides meaningful information to users."]

Kinds == {RuleOrder[i] : i \in 1..Len(RuleOrder)} \cup {"Valid"}

\* C1: the verdict of a call is that of the first rule, in the order
\* MissingTitle, TitleTooLong, MissingDescription, DescriptionTooLong,
\* DuplicateContent, that fails on the arguments, and Valid when none fails:
\* when several rules fail only the earliest one's message is reported.
C1_FirstFailingRuleWins ==
    pc = "done" =>
        completion = Return(VerdictOfKind(FirstFailing(title, description),
                                          title, description))

\* A 101-character title with an empty description: TitleTooLong and
\* MissingDescription fail together and the title's length is reported.
C1_Witness ==
    /\ pc = "done"
    /\ title = Str(Rep("a", 101))
    /\ description = EmptyString
    /\ Cardinality(FailingRules(title, description)) >= 2
    /\ completion = Return(TitleTooLong(101))

\* C2: no call raises: every call returns a verdict object, and an absent
\* title (description) gets the verdict the empty string gets.
C2_NeverThrows ==
    pc = "done" =>
        /\ completion.type = "normal"
        /\ completion.value.isValid \in BOOLEAN
        /\ IsAbsent(title) =>
              completion = validateCardProps(EmptyString, description)
        /\ IsAbsent(description) =>
              completion = validateCardProps(title, EmptyString)

\* A well-formed title with an undefined description.
C2_Witness ==
    /\ pc = "done"
    /\ title = Str(<<"a">>)
    /\ description = Undefined
    /\ completion = Return(MissingDescription)

\* The kinds whose canonical message, for these arguments, is `message`.
KindsOfMessage(message, t, d) ==
    {k \in Kinds : message = VerdictOfKind(k, t, d).message}

\* C4: a returned verdict is of exactly one of the six kinds, the kinds'
\* canonical messages differ from each other, and isValid holds exactly when
\* the message is the success message.
C4_ExactlyOneKind ==
    pc = "done" =>
        /\ completion.type = "normal"
        /\ Cardinality(KindsOfMessage(completion.value.message,
                                      title, description)) = 1
        /\ \A j, k \in Kinds :
              j # k => VerdictOfKind(j, title, description).message
                          # VerdictOfKind(k, title, description).message
        /\ completion.value.isValid
              <=> completion.value.message
                     = "Card content is valid and provides meaningful information to users."

\* A duplicate: the verdict carries the duplicate message and is not valid.
C4_Witness ==
    /\ pc = "done"
    /\ title = Str(<<"a">>)
    /\ description = Str(<<"A">>)
    /\ KindsOfMessage(completion.value.message, title, description)
          = {"DuplicateContent"}
    /\ ~completion.value.isValid

\* No rule other than `rule` fails on the arguments.
OnlyRuleAtStake(rule, t, d) ==
    \A i \in FailingRules(t, d) : RuleOrder[i] = rule

\* C5: when no other rule fails (the title has content, the description is
\* present, within its limit and different from the title), a title of up to
\* 100 characters is Valid and a longer one is TitleTooLong; 101 characters
\* are reported as "101/100 characters".
C5_TitleLengthBoundary ==
    (pc = "done" /\ IsString(title)
       /\ OnlyRuleAtStake("TitleTooLong", title, description)) =>
        /\ Len(title.chars) <= 100 =>
              completion = Return(VerdictOfKind("Valid", title, description))
        /\ Len(title.chars) > 100 =>
              completion = Return(VerdictOfKind("TitleTooLong", title, description))
        /\ Len(title.chars) = 101 =>
              completion.value.message =
                  "Card title is too long (101/100 characters). Please use a concise title that summarizes your content effectively."

\* A title of exactly 100 characters, found valid.
C5_Witness ==
    /\ pc = "done"
    /\ title = Str(Rep("a", 100))
    /\ description = Str(<<"a">>)
    /\ completion.value.isValid

\* C6: when no other rule fails (the title is valid, the description has
\* content and differs from the title), a description of up to 500
\* characters is Valid and a longer one is DescriptionTooLong; 501 characters
\* are reported as "501/500 characters".
C6_DescriptionLengthBoundary ==
    (pc = "done" /\ IsString(description)
       /\ OnlyRuleAtStake("DescriptionTooLong", title, description)) =>
        /\ Len(description.chars) <= 500 =>
              completion = Return(VerdictOfKind("Valid", title, description))
        /\ Len(description.chars) > 500 =>
              completion =
                  Return(VerdictOfKind("DescriptionTooLong", title, description))
        /\ Len(description.chars) = 501 =>
              completion.value.message =
                  "Card description is too long (501/500 characters). Please provide a concise description that highlights the key information."

\* A description of exactly 500 characters, found valid.
C6_Witness ==
    /\ pc = "done"
    /\ title = Str(<<"a">>)
    /\ description = Str(Rep("a", 500))
    /\ completion.value.isValid

\* C7: the length checks read the raw string.  A title with content whose
\* trimmed length is within 100 but whose raw length is not is TitleTooLong,
\* reported with the raw length; likewise, under a valid title, for the
\* description and 500.
C7_RawLengthTrimmedPresence ==
    pc = "done" =>
        /\ (/\ IsString(title)
            /\ length(trim(title)) \in 1..100
            /\ Len(title.chars) > 100) =>
              completion =
                  Return([isValid |-> FALSE,
                          message |-> "Card title is too long ("
                              \o ToString(Len(title.chars))
                              \o "/100 characters). Please use a concise title that summarizes your content effectively."])
        /\ (/\ ~IsBlank(title)
            /\ Len(title.chars) <= 100
            /\ IsString(description)
            /\ length(trim(description)) \in 1..500
            /\ Len(description.chars) > 500) =>
              completion =
                  Return([isValid |-> FALSE,
                          message |-> "Card description is too long ("
                              \o ToString(Len(description.chars))
                              \o "/500 characters). Please provide a concise description that highlights the key information."])

\* A leading space before 100 letters: 100 characters trimmed, 101 raw.
C7_Witness ==
    /\ pc = "done"
    /\ title = Str(<<" ">> \o Rep("a", 100))
    /\ length(trim(title)) = 100
    /\ completion = Return(TitleTooLong(101))

\* C8: an absent, empty or white-space-only title is MissingTitle whatever
\* its raw length and whatever the description.
C8_BlankTitleIsMissingTitle ==
    (pc = "done" /\ IsBlank(title)) =>
        completion = Return(VerdictOfKind("MissingTitle", title, description))

\* 101 spaces as the title and an empty description.
C8_Witness ==
    /\ pc = "done"
    /\ title = Str(Rep(" ", 101))
    /\ description = EmptyString
    /\ completion = Return(MissingTitle)

\* C9: with both fields present and within their limits, the verdict is
\* DuplicateContent exactly when the two are equal after trimming and
\* lower-casing, and Valid otherwise.
C9_DuplicateIffNormalisedEqual ==
    (/\ pc = "done"
     /\ ~IsBlank(title) /\ Len(title.chars) <= 100
     /\ ~IsBlank(description) /\ Len(description.chars) <= 500) =>
        /\ completion = Return(VerdictOfKind("DuplicateContent", title, description))
              <=> Normalised(title) = Normalised(description)
        /\ completion = Return(VerdictOfKind("Valid", title, description))
              <=> Normalised(title) # Normalised(description)

\* " A" and "a ": different strings, equal once trimmed and lower-cased.
C9_Witness ==
    /\ pc = "done"
    /\ title = Str(<<" ", "A">>)
    /\ description = Str(<<"a", " ">>)
    /\ completion = Return(DuplicateContent)

\* White space put before and after a string.
Padded(v) ==
    {Str(lead \o v.chars \o trail) :
        lead \in {<<>>, <<" ">>}, trail \in {<<>>, <<" ">>, <<"\t">>}}

\* C10: white space added around a title and a description found Valid
\* leaves the verdict Valid while both raw lengths stay within 100 and 500,
\* and is counted by the length checks once one of them does not.
C10_TrimmingTolerance ==
    (pc = "done" /\ completion = Return(Valid)) =>
        \A t \in Padded(title), d \in Padded(description) :
            validateCardProps(t, d) =
                IF Len(t.chars) > 100
                THEN Return(VerdictOfKind("TitleTooLong", t, d))
                ELSE IF Len(d.chars) > 500
                THEN Return(VerdictOfKind("DescriptionTooLong", t, d))
                ELSE Return(VerdictOfKind("Valid", t, d))

\* A valid 99-character title: one added space keeps it valid, two do not.
C10_Witness ==
    /\ pc = "done"
    /\ title = Str(Rep("a", 99))
    /\ description = Str(<<"a", " ">>)
    /\ completion = Return(Valid)
    /\ \E t \in Padded(title) : Len(t.chars) = 100
    /\ \E t \in Padded(title) : Len(t.chars) = 101

\* C3: the verdict of a render depends on title and description alone: a
\* render that passes the same title and description as the previous one
\* computes an equal verdict, whatever else it changes (variant, size,
\* status, showValidation, the observer) and whatever was delivered before.
C3_VerdictDependsOnContentOnly ==
    [][(/\ props.mounted
        /\ props'.title = props.title
        /\ props'.description = props.description)
          => validation' = validation]_vars

\* An invalid card rendered again with another presentation prop.
C3_Witness ==
    /\ props.mounted
    /\ rerender = "presentation"
    /\ props.showValidation = "true"
    /\ props.onValidationChange = "observer"
    /\ observed = Return(Valid)
    /\ validation = Return(DuplicateContent)

---------------------------------------------------------------------------
(* The render mode and the element of a render (specification sections 3   *)
(* and 4.2).                                                                *)

Rendered == props.mounted /\ validation.type = "normal"

\* The render mode an element shows.
RenderMode(element) ==
    CASE element.role = "alert" -> "ValidationError"
      [] element.role = "article" -> "Normal"
      [] OTHER -> "none"

\* C11: a render is in ValidationError mode exactly when its verdict is
\* invalid and showValidation is true, and in Normal mode in every other
\* combination.
C11_ErrorModeIffInvalidAndShown ==
    Rendered =>
        /\ RenderMode(output) = "ValidationError"
              <=> (~validation.value.isValid /\ props.showValidation = "true")
        /\ RenderMode(output) = "Normal"
              <=> (validation.value.isValid \/ props.showValidation # "true")

\* Invalid content with showValidation false, rendered normally.
C11_Witness ==
    /\ Rendered
    /\ ~validation.value.isValid
    /\ props.showValidation = "false"
    /\ RenderMode(output) = "Normal"

\* C12: with showValidation false or omitted an invalid card is rendered in
\* Normal mode with the caller's title and description as given: no alert
\* and no "Invalid Card Configuration" heading.
C12_ErrorsSuppressedUnlessShown ==
    (Rendered /\ ~validation.value.isValid
       /\ props.showValidation \in {"false", "omitted"}) =>
        /\ output.role = "article"
        /\ output.title = props.title
        /\ output.description = props.description
        /\ "heading" \notin DOMAIN output

\* A card without a title and without showValidation.
C12_Witness ==
    /\ Rendered
    /\ props.title = Undefined
    /\ props.showValidation = "omitted"
    /\ validation = Return(MissingTitle)
    /\ output.role = "article"

\* C13: in ValidationError mode the style is that of variant "status" with
\* status "error", whatever variant and status were requested.
C13_ErrorModeForcesStatusError ==
    (Rendered /\ RenderMode(output) = "ValidationError") =>
        /\ output.className.variant = "border-l-4 bg-card shadow-sm"
        /\ output.className.status
              = "border-l-red-500 bg-red-50/50 dark:bg-red-950/10"

\* The error view of a card requested as featured with status success.
C13_Witness ==
    /\ Rendered
    /\ RenderMode(output) = "ValidationError"
    /\ props.variant = "featured"
    /\ props.status = "success"

FailureMessages(t, d) ==
    {VerdictOfKind(kind, t, d).message : kind \in Kinds \ {"Valid"}}

\* C14: in ValidationError mode the text of the alert is the message of the
\* verdict of the current title and description, one of the five failure
\* messages, and the caller's title and description are not rendered.
C14_AlertShowsVerdictMessage ==
    (Rendered /\ RenderMode(output) = "ValidationError") =>
        /\ output.message
              = VerdictOfKind(FirstFailing(props.title, props.description),
                              props.title, props.description).message
        /\ output.message \in FailureMessages(props.title, props.description)
        /\ "title" \notin DOMAIN output
        /\ "description" \notin DOMAIN output

\* The alert of a card whose description is over the limit.
C14_Witness ==
    /\ Rendered
    /\ RenderMode(output) = "ValidationError"
    /\ props.title = Str(<<"a">>)
    /\ Len(props.description.chars) = DescriptionMaxLength + 1
    /\ output.message
          = "Card description is too long (501/500 characters). Please provide a concise description that highlights the key information."

\* The style key a prop resolves to (specification section 3).
Requested(given, default) == IF given = "omitted" THEN default ELSE given

\* C15: in Normal mode the style is looked up with the caller's variant,
\* size and status, an omitted one being "default", "default" and "none";
\* the validity of the content does not alter them.
C15_NormalModeUsesRequestedStyle ==
    (Rendered /\ RenderMode(output) = "Normal") =>
        output.className
            = [variant |-> VariantClass(Requested(props.variant, "default")),
               size    |-> SizeClass(Requested(props.size, "default")),
               status  |-> StatusClass(Requested(props.status, "none"))]

\* An invalid card shown normally, its variant omitted and its status given.
C15_Witness ==
    /\ Rendered
    /\ RenderMode(output) = "Normal"
    /\ ~validation.value.isValid
    /\ props.variant = "omitted"
    /\ props.status = "success"
    /\ output.className.variant = "border-border bg-card hover:shadow-md"
    /\ output.className.status
          = "border-l-green-500 bg-green-50/50 dark:bg-green-950/10"

---------------------------------------------------------------------------
(* Notification of the observer (specification section 4.3).               *)

Registered == props.mounted /\ props.onValidationChange = "mock"

\* A step that runs the effect of the last render.
EffectStep == effectPending /\ ~effectPending'

\* C16: whenever the verdict of a render of a live instance differs by value
\* from the verdict its observer saw last, it is emitted to the registered
\* observer, once: the emission is scheduled by that render, it happens, and
\* it is a single call with that verdict.
C16_ChangedVerdictEmittedOnce ==
    /\ []((Rendered /\ Registered /\ validation # observed) => effectPending)
    /\ [][(EffectStep /\ Registered /\ validation # observed) =>
             /\ calls' = Append(calls, validation)
             /\ observed' = validation]_vars
    /\ (Rendered /\ Registered /\ validation # observed) ~> (observed = validation)

\* The observer saw "title missing" and then, after a re-render with other
\* invalid content, "duplicate content".
C16_Witness ==
    /\ Registered
    /\ ~effectPending
    /\ rerender = "content"
    /\ calls = <<Return(MissingTitle), Return(DuplicateContent)>>
    /\ observed = validation

\* C17: a card mounted once with an observer, "Valid title" and "Valid
\* description" calls the observer exactly once, with {isValid: true,
\* message: the success message}.
C17_MountEmitsValidOnce ==
    /\ []((/\ Registered
           /\ rerender = "mount"
           /\ props.title = Str(<<"V", "a", "l", "i", "d", " ", "t", "i", "t", "l", "e">>)
           /\ props.description
                 = Str(<<"V", "a", "l", "i", "d", " ", "d", "e", "s", "c", "r", "i", "p", "t", "i", "o", "n">>))
          => calls = IF effectPending THEN <<>>
                     ELSE <<Return([isValid |-> TRUE,
                                    message |-> "Card content is valid and provides meaningful information to users."])>>)
    /\ (Registered /\ rerender = "mount") ~> (Len(calls) >= 1)

\* After the mount of the test and its effect.
C17_Witness ==
    /\ Registered
    /\ rerender = "mount"
    /\ props.title = Str(<<"V", "a", "l", "i", "d", " ", "t", "i", "t", "l", "e">>)
    /\ ~effectPending
    /\ Len(calls) = 1
    /\ calls[1].value.isValid

\* C18: without an observer no render emits anything and every render
\* completes without an error, for valid and for invalid content.
C18_NoObserverNoEmission ==
    /\ []((props.mounted /\ props.onValidationChange = "omitted") =>
             output.role \in {"article", "alert"})
    /\ [][(props'.mounted /\ props'.onValidationChange = "omitted"
             /\ (props.mounted => props.onValidationChange = "omitted")) =>
             /\ calls' = calls
             /\ observed' = observed]_vars

\* An invalid card without observer, after its effect ran.
C18_Witness ==
    /\ props.mounted
    /\ props.onValidationChange = "omitted"
    /\ ~validation.value.isValid
    /\ rerender = "mount"
    /\ ~effectPending
    /\ calls = <<>>
    /\ output.role = "alert"

\* C19: an emission happens after the render it belongs to decided between
\* Normal and ValidationError, never before or during it, and carries the
\* verdict that decided.
C19_EmissionFollowsRenderDecision ==
    [][(calls' # calls \/ observed' # observed) =>
          /\ Rendered
          /\ effectPending
          /\ UNCHANGED <<props, validation, output>>
          /\ calls' = IF Registered THEN Append(calls, validation) ELSE calls
          /\ observed' = validation
          /\ RenderMode(output) =
                IF ~observed'.value.isValid /\ props.showValidation = "true"
                THEN "ValidationError" ELSE "Normal"]_vars

\* The observer holds the verdict of the alert on screen.
C19_Witness ==
    /\ Registered
    /\ ~effectPending
    /\ RenderMode(output) = "ValidationError"
    /\ calls = <<Return(MissingTitle)>>

---------------------------------------------------------------------------
(* Independence of instances (specification section 5).                    *)

\* Verdict and render mode of an instance as its own props determine them.
OwnInputsDetermine(inst) ==
    inst.props.mounted =>
        /\ inst.validation.type = "normal"
        /\ inst.validation.value
              = VerdictOfKind(FirstFailing(inst.props.title, inst.props.description),
                              inst.props.title, inst.props.description)
        /\ RenderMode(inst.output) =
              IF FirstFailing(inst.props.title, inst.props.description) # "Valid"
                 /\ inst.props.showValidation = "true"
              THEN "ValidationError" ELSE "Normal"

\* C20: instances rendered and re-rendered in any interleaving do not
\* interfere: verdict and render mode of each are those of its own props, a
\* step of one leaves the other as it was, and an observer receives only the
\* verdict of its own instance.
C20_InstancesDoNotInterfere ==
    /\ [](OwnInputsDetermine(Instance) /\ OwnInputsDetermine(sibling))
    /\ [][/\ sibling' # sibling => UNCHANGED cardVars
          /\ cardVars' # cardVars => sibling' = sibling
          /\ observed' # observed => observed' = validation
          /\ sibling'.observed # sibling.observed =>
                sibling'.observed = sibling.validation]_vars

\* Two cards side by side, one without title and one valid, each observer
\* holding the verdict of its own card.
C20_Witness ==
    /\ props.mounted /\ sibling.props.mounted
    /\ ~effectPending /\ ~sibling.effectPending
    /\ observed = Return(MissingTitle)
    /\ sibling.observed = Return(Valid)
    /\ RenderMode(output) = "ValidationError"
    /\ RenderMode(sibling.output) = "Normal"

---------------------------------------------------------------------------
(* Style, lifecycle and roles (specification sections 3 and 4.2).          *)

\* C21: the status has an effect only with variant "status": in Normal mode
\* with any other variant the style of the card is the same for every value
\* of status.
C21_StatusOnlyWithStatusVariant ==
    (Rendered /\ RenderMode(output) = "Normal"
       /\ Requested(props.variant, "default") # "status") =>
        \A s \in Statuses :
            ArticleElement([props EXCEPT !.status = s]).className = output.className

\* The element the current props alone determine.
ElementOfInputs(p) ==
    LET kind == FirstFailing(p.title, p.description)
    IN  IF kind # "Valid" /\ p.showValidation = "true"
        THEN [mode      |-> "ValidationError",
              text      |-> <<VerdictOfKind(kind, p.title, p.description).message>>,
              styleKeys |-> <<"status", Requested(p.size, "default"), "error">>]
        ELSE [mode      |-> "Normal",
              text      |-> <<p.title, p.description>>,
              styleKeys |-> <<Requested(p.variant, "default"),
                              Requested(p.size, "default"),
                              Requested(p.status, "none")>>]

\* What an element on screen shows.
ElementShown(element) ==
    [mode      |-> RenderMode(element),
     text      |-> IF element.role = "alert" THEN <<element.message>>
                   ELSE <<element.title, element.description>>,
     classes   |-> element.className]

\* C22: after any sequence of re-renders of an instance, verdict, render
\* mode, displayed content and style are those of the most recent inputs
\* only; nothing of an earlier render persists.
C22_LatestInputsOnly ==
    Rendered =>
        LET want == ElementOfInputs(props)
            shown == ElementShown(output)
        IN  /\ validation.value
                  = VerdictOfKind(FirstFailing(props.title, props.description),
                                  props.title, props.description)
            /\ shown.mode = want.mode
            /\ shown.text = want.text
            /\ shown.classes = [variant |-> VariantClass(want.styleKeys[1]),
                                size    |-> SizeClass(want.styleKeys[2]),
                                status  |-> StatusClass(want.styleKeys[3])]

\* A card shown as an alert without title, re-rendered with a title: the
\* observer still holds the earlier verdict, the screen shows the article.
C22_Witness ==
    /\ Rendered
    /\ rerender = "content"
    /\ props.showValidation = "true"
    /\ observed = Return(MissingTitle)
    /\ validation = Return(Valid)
    /\ RenderMode(output) = "Normal"
    /\ output.title = Str(<<"a">>)

\* The verdict the observer was called with last.
LastCall == IF calls = <<>> THEN NotCalled ELSE calls[Len(calls)]

\* C23: validation is advisory: every render computes the verdict and, with
\* an observer registered, an invalid verdict is emitted also when
\* showValidation is false and the card is shown in Normal mode;
\* showValidation bears on the render mode only, not on whether or what is
\* emitted.
C23_EmissionIgnoresShowValidation ==
    /\ [](Rendered =>
             validation.value
                = VerdictOfKind(FirstFailing(props.title, props.description),
                                props.title, props.description))
    /\ []((Rendered /\ Registered) => (effectPending \/ LastCall = validation))
    /\ [][(EffectStep /\ Registered) =>
             /\ calls' = Append(calls, validation)
             /\ UNCHANGED output]_vars
    /\ (Rendered /\ Registered /\ effectPending
          /\ ~validation.value.isValid /\ props.showValidation # "true")
       ~> (/\ Rendered
           /\ RenderMode(output) = "Normal"
           /\ ~effectPending
           /\ LastCall = validation
           /\ ~validation.value.isValid)

\* A card without title and with showValidation false: shown normally, its
\* observer called with "title missing".
C23_Witness ==
    /\ Registered
    /\ ~effectPending
    /\ props.showValidation = "false"
    /\ RenderMode(output) = "Normal"
    /\ calls = <<Return(MissingTitle)>>

\* The layout of an element: the error heading with the diagnostic, or the
\* heading and body of the content.
LayoutOf(element) ==
    (IF {"heading", "message"} \subseteq DOMAIN element THEN {"ValidationError"} ELSE {})
    \cup (IF {"title", "description"} \subseteq DOMAIN element THEN {"Normal"} ELSE {})

\* C24: the root element has role "alert" exactly when the render is in
\* ValidationError mode and role "article" exactly when it is in Normal
\* mode; no render has both roles or neither.
C24_RoleMatchesMode ==
    Rendered =>
        LET mode == IF ~validation.value.isValid /\ props.showValidation = "true"
                    THEN "ValidationError" ELSE "Normal"
        IN  /\ LayoutOf(output) = {mode}
            /\ output.role = "alert" <=> mode = "ValidationError"
            /\ output.role = "article" <=> mode = "Normal"
            /\ output.role \in {"alert", "article"}

\* An alert on screen after a re-render that turned showValidation on.
C24_Witness ==
    /\ Rendered
    /\ rerender = "presentation"
    /\ props.showValidation = "true"
    /\ output.role = "alert"
    /\ LayoutOf(output) = {"ValidationError"}

---------------------------------------------------------------------------
(* createSession (auth.test.ts).                                           *)

\* The position of an event in the log of a call, 0 when it is absent.
PositionIn(log, event) ==
    IF \E i \in 1..Len(log) : log[i] = event
    THEN CHOOSE i \in 1..Len(log) : log[i] = event
    ELSE 0

\* C25: createSession signs the token before it touches the cookie store:
\* when signing fails it rejects with that error and the auth-token cookie
\* is not set; the cookie is set only after a successful signature, with
\* the signed token as its value.
C25_SignBeforeCookie ==
    /\ [](session.pc # "none" =>
             /\ PositionIn(session.log, "cookies") # 0 =>
                   /\ PositionIn(session.log, "sign") # 0
                   /\ PositionIn(session.log, "sign") < PositionIn(session.log, "cookies")
                   /\ session.token \in Tokens
             /\ PositionIn(session.log, "set") # 0 =>
                   PositionIn(session.log, "cookies") # 0
             /\ session.result = "rejected: JWT signing failed" =>
                   /\ PositionIn(session.log, "cookies") = 0
                   /\ PositionIn(session.log, "set") = 0)
    /\ [][/\ (session.pc = "await sign" /\ session'.token = "none"
                /\ session'.pc # "await sign") =>
                /\ session'.result = "rejected: JWT signing failed"
                /\ session'.cookieSets = session.cookieSets
          /\ session'.cookieSets # session.cookieSets =>
                /\ session.token \in Tokens
                /\ session'.result = "resolved"
                /\ Len(session'.cookieSets) = Len(session.cookieSets) + 1
                /\ session'.cookieSets[Len(session'.cookieSets)].name = "auth-token"
                /\ session'.cookieSets[Len(session'.cookieSets)].value = session.token
                /\ SubSeq(session'.cookieSets, 1, Len(session.cookieSets))
                      = session.cookieSets]_vars

\* A call that set the cookie, then one whose signature failed: one cookie.
C25_Witness ==
    /\ session.pc = "idle"
    /\ session.count = 2
    /\ session.result = "rejected: JWT signing failed"
    /\ Len(session.cookieSets) = 1
    /\ session.cookieSets[1].value = "other-jwt-token"

\* C26: the cookie has secure = true exactly when NODE_ENV is the string
\* "production" at the time of the call, for every other value and when
\* unset secure is false, and each call decides anew.
C26_SecureIffProduction ==
    [][session'.cookieSets # session.cookieSets =>
          (session'.cookieSets[Len(session'.cookieSets)].secure
              <=> session.env = [set |-> TRUE, value |-> "production"])]_vars

\* A call in production and then one with NODE_ENV = "PRODUCTION".
C26_Witness ==
    /\ session.pc = "idle"
    /\ session.env = NodeEnv("PRODUCTION")
    /\ Len(session.cookieSets) = 2
    /\ session.cookieSets[1].secure
    /\ ~session.cookieSets[2].secure

---------------------------------------------------------------------------
(* The observer that stores the verdict in its parent's state.             *)

\* C27: when the observer stores each emitted verdict in the state of the
\* parent, which thereby renders the Card again with the same title,
\* description and observer, the cycle of renders and emissions stops: a
\* state is reached from which no render and no emission is pending.
C27_RenderEmitCycleStops ==
    <>[](~effectPending /\ ~examples.renderPending)

\* The verdicts of the first k renders of the history.
VerdictsOf(history, k) ==
    [i \in 1..k |->
        Return(VerdictOfKind(FirstFailing(history[i].title, history[i].description),
                             history[i].title, history[i].description))]

\* C28: after k committed renders of an instance with a registered observer
\* the observer has been called k times, once after each render and in
\* their order, the i-th call with the verdict of the title and description
\* of the i-th render, whether or not it differs from the one before.
C28_OneCallPerRender ==
    /\ [](Registered =>
             calls = VerdictsOf(renders, IF effectPending THEN Len(renders) - 1
                                         ELSE Len(renders)))
    /\ \A k \in 1..(MaxRenders + 1) :
          (Registered /\ Len(renders) = k) ~> (Len(calls) >= k)

\* Three renders, the second without change of the verdict: three calls.
C28_Witness ==
    /\ Registered
    /\ ~effectPending
    /\ Len(renders) = 3
    /\ calls = <<Return(Valid), Return(Valid), Return(MissingTitle)>>

---------------------------------------------------------------------------
(* Accessibility references of cards of one document.                      *)

\* C29: when several cards are shown in Normal mode in one document, the
\* aria-labelledby and aria-describedby of each card resolve to the title
\* and description element of that same card: no two cards share an id.
C29_AriaReferencesOwnElements ==
    (RenderMode(output) = "Normal" /\ RenderMode(sibling.output) = "Normal") =>
        /\ output.titleId # sibling.output.titleId
        /\ output.descriptionId # sibling.output.descriptionId
        /\ \A i \in 1..Len(Document) :
              /\ ResolveId(Document, "titleId", Document[i].labelledby) = i
              /\ ResolveId(Document, "descriptionId", Document[i].describedby) = i

---------------------------------------------------------------------------
(* The two copies of the module.                                           *)

\* C30: the validators of Card.tsx and of the inline-styled module are
\* equivalent: for every title and description they return the same isValid
\* and the same message, and the two Card components choose the same render
\* mode for the same verdict and showValidation.
C30_CopiesEquivalent ==
    pc = "done" =>
        LET inline == validateCardPropsInline(title, description)
        IN  /\ completion.type = inline.type
            /\ completion.type = "normal" =>
                  /\ completion.value.isValid = inline.value.isValid
                  /\ completion.value.message = inline.value.message
                  /\ \A show \in {"omitted", "true", "false"} :
                        ShowsError([showValidation |-> show], completion.value)
                           <=> ShowsErrorInline(show, inline.value)

\* A title of 100 characters with a description: valid for both copies.
C30_Witness ==
    /\ pc = "done"
    /\ IsString(title)
    /\ length(title) = TitleMaxLength
    /\ completion = Return(Valid)
    /\ validateCardPropsInline(title, description) = Return(Valid)

====
